---- MODULE Spec2Model ----
(***************************************************************************)
(* The stats virtual table of askgit (pkg/gitqlite/git_stats.go): the      *)
(* table instance, its cursors and the commit walkers they own, driven by  *)
(* the SQLite virtual-table protocol (Open, Filter, EOF/Column/Next,       *)
(* Close) over a fixed repository whose collaborator calls may fail.       *)
(***************************************************************************)
EXTENDS Integers, Sequences, FiniteSets, TLC

\* ---------------------------------------------------------------- bounds
MaxCommits == 2
MaxFilters == 2
MaxConstraints == 2

Cursors == {1, 2}
Cols == 0 .. 3

\* ------------------------------------------------------ the repository
\* Kinds of commit a history is built from.  A root kind lists the files
\* present at the commit (name, number of lines); a non-root kind lists the
\* statistics of its diff against the first parent.
RootKinds == {"rootAB", "rootE"}
NonRootKinds == {"change", "empty"}
Kinds == RootKinds \cup NonRootKinds

KindParents(k) == IF k \in RootKinds THEN 0 ELSE 1

KindFiles(k) ==
  CASE k = "rootAB" -> << [name |-> "a.txt", lines |-> 3],
                          [name |-> "b.txt", lines |-> 2] >>
    [] k = "rootE"  -> << [name |-> "e.txt", lines |-> 0] >>
    [] OTHER        -> << >>

KindDiff(k) ==
  CASE k = "change" -> << [Name |-> "a.txt", Addition |-> 3, Deletion |-> 1],
                          [Name |-> "b.txt", Addition |-> 0, Deletion |-> 2] >>
    [] OTHER        -> << >>

\* Histories in walker order (tip first); the empty history is the unborn
\* repository.  The oldest commit of a history is a root.
Histories ==
  UNION { { h \in [1 .. n -> Kinds] : n > 0 => h[n] \in RootKinds }
          : n \in 0 .. MaxCommits }

\* The i-th commit the walker yields; hashes are distinct per commit.
CommitAt(h, i) ==
  [id      |-> 100 + (Len(h) - i),
   parents |-> KindParents(h[i]),
   files   |-> KindFiles(h[i]),
   diff    |-> KindDiff(h[i])]

\* ------------------------------------------------------------- errors
Nil == "nil"
ErrReferenceNotFound == "ErrReferenceNotFound"

ErrOf(f) ==
  CASE f = "open"     -> "ErrOpen"
    [] f = "head"     -> "ErrHead"
    [] f = "log"      -> "ErrLog"
    [] f = "next"     -> "ErrIterNext"
    [] f = "stats"    -> "ErrStats"
    [] f = "files"    -> "ErrFiles"
    [] f = "fileNext" -> "ErrFileNext"
    [] f = "lines"    -> "ErrLines"
    [] f = "declare"  -> "ErrDeclare"
    [] OTHER          -> Nil

\* ----------------------------------------------------- the table module
\* Strings whose characters matter are sequences of one-character strings.
DQ == "\""
SQ == "'"

\* The slice taken from the first character on.
StripLast(str) == SubSeq(str, 1, Len(str) - 1)

\* args[3][1 : len(args[3])-1]: one character dropped at each end.
StripQuotes(str) == SubSeq(str, 2, Len(str) - 1)

NoTable == [repoPath |-> << >>, exists |-> FALSE]

\* Create with creation arguments args (args[4] is args[3] of the code)
\* when DeclareVTab answers d: the table instance and the error returned.
CreateCall(args, d) ==
  IF d = "declare" THEN [table |-> NoTable, err |-> ErrOf(d)]
  ELSE [table |-> [repoPath |-> StripQuotes(args[4]), exists |-> TRUE],
        err |-> Nil]

ConnectCall(args, d) == CreateCall(args, d)

\* BestIndex claiming every usable constraint.
BestIndexCallUsable(cst, ob) ==
  [Used |-> [i \in 1 .. Len(cst) |-> cst[i].Usable], err |-> Nil]

\* BestIndex: one false flag per constraint.
BestIndexCall(cst, ob) ==
  [Used |-> [i \in 1 .. Len(cst) |-> FALSE], err |-> Nil]

\* The inputs of the table-level calls.
Paths == { << "/", "r" >>, << >>, << DQ, "a", DQ >> }
Quoted(p, q) == << q >> \o p \o << q >>
CreateArgs(p, q) == << "git_stats", "main", "stats", Quoted(p, q) >>

Constraints == { [Column |-> 0, Op |-> 2, Usable |-> TRUE],
                 [Column |-> 1, Op |-> 4, Usable |-> FALSE] }
ConstraintLists ==
  UNION { [1 .. n -> Constraints] : n \in 0 .. MaxConstraints }
OrderBys == { << >>, << [Column |-> 0, Desc |-> TRUE] >> }

\* --------------------------------------------------- statistics providers
\* commit.Stats(): the diff against the first parent; for a commit without
\* parents the diff against the empty tree, which has no entry for a file
\* whose patch is empty (a file of zero lines).
RECURSIVE NonEmptyPatches(_)
NonEmptyPatches(files) ==
  IF files = << >> THEN << >>
  ELSE IF Head(files).lines = 0 THEN NonEmptyPatches(Tail(files))
  ELSE << [Name |-> Head(files).name, Addition |-> Head(files).lines,
           Deletion |-> 0] >> \o NonEmptyPatches(Tail(files))

DiffStats(commit) ==
  IF commit.parents = 0 THEN NonEmptyPatches(commit.files) ELSE commit.diff

\* The loop over commit.Files() in Next: one FileStat per file, the number
\* of its lines as additions.
RootStats(commit) ==
  [i \in 1 .. Len(commit.files) |->
     [Name |-> commit.files[i].name, Addition |-> commit.files[i].lines,
      Deletion |-> 0]]

\* ------------------------------------------------------------- the cursor
\* statsCursor: repo is a repository handle (0 is nil), current the position
\* in the log of the commit pointed to (0 is nil), commitIter the number of
\* the walker pointed to (0 is nil), statIndex is 0-based as in the code.
\* The cursor reading the repository through the table's field.
CursorRepoOfTable(vc, tableRepo) == tableRepo

\* The repository a cursor works on: the handle Open stored in it.
CursorRepo(vc, tableRepo) == vc.repo

NewCursor(handle) ==
  [repo |-> handle, current |-> 0, stats |-> << >>, statIndex |-> 0,
   commitIter |-> 0]

\* A walker: the number of commits it has yielded, whether it has reported
\* the end of the history, whether it has been closed.
NewWalker == [pos |-> 0, done |-> FALSE, closed |-> FALSE]

\* EOF with the test on the walker instead of the current commit.
EOFNoIter(vc) == vc.commitIter = 0

EOF(vc) == vc.current = 0

Rowid(vc) == 0

\* The walker yielding two commits in one call.
AdvanceTwo(w) == [w EXCEPT !.pos = @ + 2]

\* iter.Next() yielding a commit: the walker has yielded one more.
Advance(w) == [w EXCEPT !.pos = @ + 1]

\* Filter returning every error of repo.Head().
HeadErrResultAll(e) == e

\* What Filter returns for an error of repo.Head().
HeadErrResult(e) == IF e = ErrReferenceNotFound THEN Nil ELSE e

\* Filter leaving statIndex as it was.
FilterStatIndexKept(vc) == vc.statIndex

\* The statIndex Filter sets once the first commit is loaded.
FilterStatIndex(vc) == 0

Result(vc, its, ret, panic) ==
  [vc |-> vc, iters |-> its, ret |-> ret, panic |-> panic]

\* Filter on cursor vc whose walkers are its, over history log, with the
\* collaborator failing at f.
FilterCall(vc, its, log, f) ==
  IF f = "head" \/ Len(log) = 0
  THEN Result(vc, its,
              HeadErrResult(IF f = "head" THEN ErrOf(f)
                            ELSE ErrReferenceNotFound), FALSE)
  ELSE IF f = "log" THEN Result(vc, its, ErrOf(f), FALSE)
  ELSE
    LET its1 == Append(its, NewWalker)
        vc1  == [vc EXCEPT !.commitIter = Len(its1)]
    IN IF f = "next" THEN Result(vc1, its1, ErrOf(f), FALSE)
       ELSE
         LET its2 == [its1 EXCEPT ![Len(its1)] = Advance(@)]
             commit == CommitAt(log, 1)
         IN IF f = "stats" THEN Result(vc1, its2, ErrOf(f), FALSE)
            ELSE Result([vc1 EXCEPT !.stats = DiffStats(commit),
                                    !.current = 1,
                                    !.statIndex = FilterStatIndex(vc)],
                        its2, Nil, FALSE)

\* The faults the collaborator can report during Filter.
FilterFaults(log) ==
  IF Len(log) = 0 THEN {"none", "head"}
  ELSE {"none", "head", "log", "next", "stats"}

\* Next never finding a file left.
MoreFilesNever(vc) == FALSE

\* len(vc.stats) > vc.statIndex+1: files of the current commit are left.
MoreFiles(vc) == Len(vc.stats) > vc.statIndex + 1

\* Next leaving current as it was at the end of the history.
EndCurrentKept(vc) == vc.current

\* The current commit Next sets when the walker reports io.EOF.
EndCurrent(vc) == 0

\* Next on cursor vc.  With files left in the current commit no collaborator
\* is called; otherwise the walker is advanced and the statistics of the
\* commit it yields are computed.
NextCall(vc, its, log, f) ==
  IF MoreFiles(vc)
  THEN Result([vc EXCEPT !.statIndex = @ + 1], its, Nil, FALSE)
  ELSE
    LET vc0 == [vc EXCEPT !.statIndex = 0]
    IN IF vc.commitIter = 0 THEN Result(vc0, its, Nil, TRUE)
       ELSE IF f = "next" THEN Result(vc0, its, ErrOf(f), FALSE)
       ELSE IF its[vc.commitIter].pos >= Len(log)
       THEN Result([vc0 EXCEPT !.current = EndCurrent(vc)],
                   [its EXCEPT ![vc.commitIter].done = TRUE], Nil, FALSE)
       ELSE
         LET p      == its[vc.commitIter].pos + 1
             its1   == [its EXCEPT ![vc.commitIter] = Advance(@)]
             commit == CommitAt(log, p)
         IN IF commit.parents = 0
            THEN IF f = "files" THEN Result(vc0, its1, ErrOf(f), FALSE)
                 ELSE IF f = "fileNext" THEN Result(vc0, its1, Nil, TRUE)
                 ELSE IF f = "lines" THEN Result(vc0, its1, ErrOf(f), FALSE)
                 ELSE Result([vc0 EXCEPT !.stats = RootStats(commit),
                                         !.current = p],
                             its1, Nil, FALSE)
            ELSE IF f = "stats" THEN Result(vc0, its1, ErrOf(f), FALSE)
                 ELSE Result([vc0 EXCEPT !.stats = DiffStats(commit),
                                         !.current = p],
                             its1, Nil, FALSE)

\* The faults the collaborator can report during Next from this position.
NextFaults(vc, its, log) ==
  IF MoreFiles(vc) \/ vc.commitIter = 0 THEN {"none"}
  ELSE IF its[vc.commitIter].pos >= Len(log) THEN {"none", "next"}
  ELSE LET commit == CommitAt(log, its[vc.commitIter].pos + 1)
       IN IF commit.parents = 0
          THEN {"none", "next", "files", "fileNext"}
               \cup (IF Len(commit.files) > 0 THEN {"lines"} ELSE {})
          ELSE {"none", "next", "stats"}

\* Column: the value handed to the engine, and whether the read panics (a
\* nil commit for column 0, an index outside stats for columns 1 to 3).
ColumnPanics(vc, col) ==
  IF col = 0 THEN vc.current = 0
  ELSE ~ (vc.statIndex < Len(vc.stats))

ColumnValue(vc, log, col) ==
  CASE col = 0 -> CommitAt(log, vc.current).id
    [] col = 1 -> vc.stats[vc.statIndex + 1].Name
    [] col = 2 -> vc.stats[vc.statIndex + 1].Addition
    [] col = 3 -> vc.stats[vc.statIndex + 1].Deletion

\* Close leaving current as it was.
CloseCurrentKept(vc) == vc.current

\* The current commit Close sets.
CloseCurrent(vc) == 0

\* Close: the walker pointed to, if any, is closed; current becomes nil.
CloseCall(vc, its) ==
  Result([vc EXCEPT !.current = CloseCurrent(vc)],
         IF vc.commitIter # 0
         THEN [its EXCEPT ![vc.commitIter].closed = TRUE] ELSE its,
         Nil, FALSE)

\* ------------------------------------------------------------ the state
VARIABLES
  repo,      \* the history of the repository at the table's path
  vrepo,     \* gitStatsTable.repo: the handle of the last Open (0 is nil)
  handles,   \* number of repository handles opened so far
  allowed,   \* the cursors the engine opens in this run
  cur,       \* cursor -> statsCursor
  iters,     \* cursor -> the walkers it created, in order of creation
  phase,     \* cursor -> "absent", "open", "closed"
  filters,   \* cursor -> number of Filter calls
  scan,      \* cursor -> "none", "ok" (last Filter returned nil), "failed"
  query,     \* cursor -> the columns the statement reads of each row
  colsRead,  \* cursor -> the columns read of the current row
  rowbuf,    \* cursor -> the values read of the current row
  out,       \* cursor -> the rows emitted since the last Filter
  last,      \* the last call: operation, cursor, fault reported, error returned
  crashed,   \* the process has panicked
  env,       \* the engine of this run: protocol and the inputs it draws
  tab,       \* the table instance: "none", "connected", "disconnected"
  repoPath,  \* gitStatsTable.repoPath
  created,   \* the path and quote character of the last Create/Connect
  plan,      \* the last BestIndex call: its inputs and its result
  trail      \* cursor -> the (commit, statIndex) of the rows in out

vars == << repo, vrepo, handles, allowed, cur, iters, phase, filters, scan,
           query, colsRead, rowbuf, out, last, crashed, env, tab, repoPath,
           created, plan, trail >>

tableVars == << tab, repoPath, created, plan >>

EmptyRow == [commit_id |-> 0, file |-> "", additions |-> 0, deletions |-> 0]

Queries == SUBSET Cols

Call(op, c, f, ret) == [op |-> op, cursor |-> c, fault |-> f, ret |-> ret]

NoPlan == [made |-> FALSE, cst |-> << >>, ob |-> << >>, Used |-> << >>]

\* An engine that keeps to the SQLite protocol and runs one statement.
StrictEnv ==
  [strict |-> TRUE, paths |-> {<< "/", "r" >>}, quotes |-> {DQ},
   csts |-> {<< >>}, obs |-> {<< >>}, queries |-> Queries]

InitCommon ==
  /\ tab = "none"
  /\ repoPath = << >>
  /\ created = [p |-> << >>, q |-> DQ]
  /\ plan = NoPlan
  /\ trail = [c \in Cursors |-> << >>]
  /\ vrepo = 0
  /\ handles = 0
  /\ cur = [c \in Cursors |-> NewCursor(0)]
  /\ iters = [c \in Cursors |-> << >>]
  /\ phase = [c \in Cursors |-> "absent"]
  /\ filters = [c \in Cursors |-> 0]
  /\ scan = [c \in Cursors |-> "none"]
  /\ query = [c \in Cursors |-> {}]
  /\ colsRead = [c \in Cursors |-> {}]
  /\ rowbuf = [c \in Cursors |-> EmptyRow]
  /\ out = [c \in Cursors |-> << >>]
  /\ last = Call("none", 0, "none", Nil)
  /\ crashed = FALSE

Init ==
  /\ InitCommon
  /\ repo \in Histories
  /\ allowed = {1}
  /\ env = StrictEnv

\* Create and Connect: the schema is declared, the path argument unquoted.
Create ==
  /\ ~ crashed
  /\ tab = "none"
  /\ \E p \in env.paths, q \in env.quotes, d \in {"none", "declare"} :
       LET r == CreateCall(CreateArgs(p, q), d)
       IN /\ tab' = IF r.table.exists THEN "connected" ELSE "none"
          /\ repoPath' = r.table.repoPath
          /\ created' = [p |-> p, q |-> q]
          /\ last' = Call("Create", 0, d, r.err)
  /\ vrepo' = 0
  /\ UNCHANGED << repo, handles, allowed, cur, iters, phase, filters, scan,
                  query, colsRead, rowbuf, out, crashed, env, plan, trail >>

Connect ==
  /\ ~ crashed
  /\ tab = "none"
  /\ \E p \in env.paths, q \in env.quotes, d \in {"none", "declare"} :
       LET r == ConnectCall(CreateArgs(p, q), d)
       IN /\ tab' = IF r.table.exists THEN "connected" ELSE "none"
          /\ repoPath' = r.table.repoPath
          /\ created' = [p |-> p, q |-> q]
          /\ last' = Call("Connect", 0, d, r.err)
  /\ vrepo' = 0
  /\ UNCHANGED << repo, handles, allowed, cur, iters, phase, filters, scan,
                  query, colsRead, rowbuf, out, crashed, env, plan, trail >>

\* The engine plans the statement before it opens a cursor.
BestIndex ==
  /\ ~ crashed
  /\ tab = "connected"
  /\ handles = 0
  /\ \E cst \in env.csts, ob \in env.obs :
       LET r == BestIndexCall(cst, ob)
       IN /\ plan' = [made |-> TRUE, cst |-> cst, ob |-> ob, Used |-> r.Used]
          /\ last' = Call("BestIndex", 0, "none", r.err)
  /\ UNCHANGED << repo, vrepo, handles, allowed, cur, iters, phase, filters,
                  scan, query, colsRead, rowbuf, out, crashed, env, tab,
                  repoPath, created, trail >>

\* Disconnect: the table forgets its handle.  A strict engine disconnects
\* only when no cursor is open.
Disconnect ==
  /\ ~ crashed
  /\ tab = "connected"
  /\ env.strict => \A c \in Cursors : phase[c] # "open"
  /\ vrepo' = 0
  /\ tab' = "disconnected"
  /\ last' = Call("Disconnect", 0, "none", Nil)
  /\ UNCHANGED << repo, handles, allowed, cur, iters, phase, filters, scan,
                  query, colsRead, rowbuf, out, crashed, env, repoPath,
                  created, plan, trail >>

\* gitStatsTable.Open: a new repository handle, kept by the table and by
\* the new cursor; the statement's columns are fixed for the cursor's life.
Open(c) ==
  /\ ~ crashed
  /\ c \in allowed
  /\ phase[c] = "absent"
  /\ tab = "connected"
  /\ plan.made
  /\ \E f \in {"none", "open"} :
       IF f = "open"
       THEN /\ last' = Call("Open", c, f, ErrOf(f))
            /\ UNCHANGED << vrepo, handles, cur, phase, query >>
       ELSE /\ handles' = handles + 1
            /\ vrepo' = handles + 1
            /\ cur' = [cur EXCEPT ![c] = NewCursor(vrepo')]
            /\ phase' = [phase EXCEPT ![c] = "open"]
            /\ \E q \in env.queries : query' = [query EXCEPT ![c] = q]
            /\ last' = Call("Open", c, f, Nil)
  /\ UNCHANGED << repo, allowed, iters, filters, scan, colsRead, rowbuf,
                  out, crashed, env, tableVars, trail >>

\* The engine (re)starts the scan.  After an error it only closes.
Filter(c) ==
  /\ ~ crashed
  /\ phase[c] = "open"
  /\ scan[c] # "failed"
  /\ filters[c] < MaxFilters
  /\ IF CursorRepo(cur[c], vrepo) = 0
     THEN /\ crashed' = TRUE
          /\ last' = Call("Filter", c, "none", Nil)
          /\ UNCHANGED << cur, iters, scan >>
     ELSE \E f \in FilterFaults(repo) :
       LET r == FilterCall(cur[c], iters[c], repo, f)
       IN /\ cur' = [cur EXCEPT ![c] = r.vc]
          /\ iters' = [iters EXCEPT ![c] = r.iters]
          /\ scan' = [scan EXCEPT ![c] = IF r.ret = Nil THEN "ok" ELSE "failed"]
          /\ last' = Call("Filter", c, f, r.ret)
          /\ crashed' = r.panic
  /\ filters' = [filters EXCEPT ![c] = @ + 1]
  /\ colsRead' = [colsRead EXCEPT ![c] = {}]
  /\ rowbuf' = [rowbuf EXCEPT ![c] = EmptyRow]
  /\ out' = [out EXCEPT ![c] = << >>]
  /\ trail' = [trail EXCEPT ![c] = << >>]
  /\ UNCHANGED << repo, vrepo, handles, allowed, phase, query, env,
                  tableVars >>

\* The columns of the current row the engine still has to read.
ToRead(c) == query[c] \ colsRead[c]

SetCol(row, col, v) ==
  CASE col = 0 -> [row EXCEPT !.commit_id = v]
    [] col = 1 -> [row EXCEPT !.file = v]
    [] col = 2 -> [row EXCEPT !.additions = v]
    [] col = 3 -> [row EXCEPT !.deletions = v]

\* The engine reads, in ascending order, a column of the row the cursor is
\* on; it asks only while EOF is false.
Column(c, col) ==
  /\ ~ crashed
  /\ phase[c] = "open"
  /\ scan[c] = "ok"
  /\ ~ EOF(cur[c])
  /\ col \in ToRead(c)
  /\ \A d \in ToRead(c) : col <= d
  /\ IF ColumnPanics(cur[c], col)
     THEN /\ crashed' = TRUE
          /\ UNCHANGED << colsRead, rowbuf >>
     ELSE /\ colsRead' = [colsRead EXCEPT ![c] = @ \cup {col}]
          /\ rowbuf' = [rowbuf EXCEPT
                          ![c] = SetCol(@, col, ColumnValue(cur[c], repo, col))]
          /\ UNCHANGED crashed
  /\ last' = Call("Column", c, "none", Nil)
  /\ UNCHANGED << repo, vrepo, handles, allowed, cur, iters, phase, filters,
                  scan, query, out, env, tableVars, trail >>

\* The engine has read the row (it is emitted) and advances; a strict
\* engine advances only while EOF is false.
Next(c) ==
  /\ ~ crashed
  /\ phase[c] = "open"
  /\ scan[c] = "ok"
  /\ IF EOF(cur[c]) THEN ~ env.strict ELSE ToRead(c) = {}
  /\ \E f \in NextFaults(cur[c], iters[c], repo) :
       LET r == NextCall(cur[c], iters[c], repo, f)
       IN /\ cur' = [cur EXCEPT ![c] = r.vc]
          /\ iters' = [iters EXCEPT ![c] = r.iters]
          /\ scan' = [scan EXCEPT ![c] = IF r.ret = Nil /\ ~ r.panic
                                         THEN "ok" ELSE "failed"]
          /\ last' = Call("Next", c, f, r.ret)
          /\ crashed' = r.panic
  /\ out' = [out EXCEPT ![c] = IF EOF(cur[c]) THEN @
                                ELSE Append(@, rowbuf[c])]
  /\ trail' = [trail EXCEPT
                 ![c] = IF EOF(cur[c]) THEN @
                        ELSE Append(@, << cur[c].current, cur[c].statIndex >>)]
  /\ colsRead' = [colsRead EXCEPT ![c] = {}]
  /\ rowbuf' = [rowbuf EXCEPT ![c] = EmptyRow]
  /\ UNCHANGED << repo, vrepo, handles, allowed, phase, filters, query, env,
                  tableVars >>

\* Close, in any state of the cursor, also on a closed one.
Close(c) ==
  /\ ~ crashed
  /\ phase[c] \in {"open", "closed"}
  /\ LET r == CloseCall(cur[c], iters[c])
     IN /\ cur' = [cur EXCEPT ![c] = r.vc]
        /\ iters' = [iters EXCEPT ![c] = r.iters]
        /\ last' = Call("Close", c, "none", r.ret)
        /\ crashed' = r.panic
  /\ phase' = [phase EXCEPT ![c] = "closed"]
  /\ UNCHANGED << repo, vrepo, handles, allowed, filters, scan, query,
                  colsRead, rowbuf, out, env, tableVars, trail >>

Next_ ==
  \/ Create
  \/ Connect
  \/ BestIndex
  \/ Disconnect
  \/ \E c \in Cursors :
    \/ Open(c)
    \/ Filter(c)
    \/ \E col \in Cols : Column(c, col)
    \/ Next(c)
    \/ Close(c)

Spec == Init /\ [][Next_]_vars

\* An engine that creates the table from every argument and plans with
\* every constraint list, over two small repositories.
TableEnv ==
  [strict |-> TRUE, paths |-> Paths, quotes |-> {DQ, SQ},
   csts |-> ConstraintLists, obs |-> OrderBys, queries |-> {{0}}]

InitTable ==
  /\ InitCommon
  /\ repo \in {<< >>, << "rootAB" >>}
  /\ allowed = {1}
  /\ env = TableEnv

\* The engine goes on with a scan: while the cursor is on a row it reads
\* the row's columns and then advances.
ScanStep(c) == Next(c) \/ \E col \in Cols : Column(c, col)

SpecFair == Spec /\ \A c \in Cursors : WF_vars(ScanStep(c))

SpecTable == InitTable /\ [][Next_]_vars

\* Two cursors of one table, driven in any interleaving by callers that
\* may disconnect the table while cursors are open and call Next at EOF.
LooseEnv ==
  [strict |-> FALSE, paths |-> {<< "/", "r" >>}, quotes |-> {DQ},
   csts |-> {<< >>}, obs |-> {<< >>}, queries |-> {{0, 1}}]

InitMulti ==
  /\ InitCommon
  /\ repo \in {<< >>, << "rootAB" >>}
  /\ allowed = {1, 2}
  /\ env = LooseEnv

SpecMulti == InitMulti /\ [][Next_]_vars

TypeOK ==
  /\ repo \in Histories
  /\ \A c \in Cursors :
       /\ cur[c].current \in 0 .. Len(repo)
       /\ cur[c].commitIter \in 0 .. Len(iters[c])
       /\ phase[c] \in {"absent", "open", "closed"}

\* ------------------------------------------------------ scans and rows
\* The cursor is in a scan the engine has not abandoned.
Scanning(c) == phase[c] = "open" /\ scan[c] = "ok"

Walker(c) == iters[c][cur[c].commitIter]

\* The states of section 4.3, from the calls made and the walker's state.
Unpositioned(c) == phase[c] = "open" /\ filters[c] = 0
Exhausted(c) ==
  Scanning(c) /\ (Len(repo) = 0 \/ (cur[c].commitIter # 0 /\ Walker(c).done))
Positioned(c) ==
  Scanning(c) /\ Len(repo) > 0 /\ cur[c].commitIter # 0 /\ ~ Walker(c).done

IsPrefix(s, t) == Len(s) <= Len(t) /\ \A i \in 1 .. Len(s) : s[i] = t[i]

WalkerIds(log) == { CommitAt(log, i).id : i \in 1 .. Len(log) }
EmittedIds(c) == { out[c][i].commit_id : i \in 1 .. Len(out[c]) }

\* The row a statement reading columns q gets at the cursor's position.
RECURSIVE ReadCols(_, _, _, _)
ReadCols(vc, log, q, row) ==
  IF q = {} THEN row
  ELSE LET col == CHOOSE x \in q : \A y \in q : x <= y
       IN ReadCols(vc, log, q \ {col},
                   SetCol(row, col, ColumnValue(vc, log, col)))

\* The rows a scan emits from cursor state vc on when no collaborator fails:
\* it ends at EOF or at a read that panics.
RECURSIVE ScanRows(_, _, _, _)
ScanRows(vc, its, log, q) ==
  IF EOF(vc) \/ \E col \in q : ColumnPanics(vc, col) THEN << >>
  ELSE LET r == NextCall(vc, its, log, "none")
       IN << ReadCols(vc, log, q, EmptyRow) >>
          \o ScanRows(r.vc, r.iters, log, q)

\* The rows of a scan by a cursor that has just been opened.
FreshRows(log, q) ==
  LET r == FilterCall(NewCursor(1), << >>, log, "none")
  IN ScanRows(r.vc, r.iters, log, q)

\* ------------------------------------------------------------- claims

\* C1: a scan that reads commit_id and has ended (EOF, or the process has
\* stopped) without a collaborator failure has emitted exactly the commit
\* ids the walker yields from the tip, commits with an empty statistics
\* list included.
C1_AllCommitsEmitted ==
  \A c \in Cursors :
    (Scanning(c) /\ 0 \in query[c] /\ (EOF(cur[c]) \/ crashed))
      => EmittedIds(c) = WalkerIds(repo)

\* C2: whenever the cursor is positioned on a root commit, by Filter or by
\* Next, its rows are those of the full-file enumeration: one per file
\* present, additions the file's line count, deletions 0.
C2_RootRowsByEnumeration ==
  \A c \in Cursors :
    (Scanning(c) /\ ~ EOF(cur[c])
       /\ CommitAt(repo, cur[c].current).parents = 0)
      => cur[c].stats = RootStats(CommitAt(repo, cur[c].current))

\* C3: on a repository without commits Filter returns no error and leaves
\* EOF true, and the scan has no rows.
C3_UnbornIsEmpty ==
  \A c \in Cursors :
    Len(repo) = 0
      => /\ out[c] = << >>
         /\ (last.op = "Filter" /\ last.cursor = c /\ last.fault = "none")
              => (last.ret = Nil /\ EOF(cur[c]) /\ ~ crashed)

C3_Witness ==
  \E c \in Cursors :
    /\ Len(repo) = 0
    /\ last.op = "Filter" /\ last.cursor = c /\ last.fault = "none"
    /\ filters[c] >= 1

\* C4: a Filter on a used cursor restarts at the tip with statIndex 0, and
\* the rows of the scan are those of a freshly opened cursor on the same
\* repository.
C4_RefilterAsFresh ==
  \A c \in Cursors :
    (Scanning(c) /\ filters[c] >= 2)
      => /\ IsPrefix(out[c], FreshRows(repo, query[c]))
         /\ (EOF(cur[c]) \/ crashed)
              => out[c] = FreshRows(repo, query[c])
         /\ (last.op = "Filter" /\ last.cursor = c /\ Len(repo) > 0)
              => (cur[c].current = 1 /\ cur[c].statIndex = 0
                  /\ Walker(c).pos = 1)

C4_Witness ==
  \E c \in Cursors :
    /\ Scanning(c) /\ filters[c] >= 2
    /\ EOF(cur[c]) /\ Len(out[c]) >= 3
    /\ Len(iters[c]) >= 2 /\ iters[c][1].pos >= 1

\* C5: while EOF is false the cursor designates an existing (commit, file)
\* pair: current is set and statIndex is inside the statistics list.
C5_PositionedOnExistingFile ==
  \A c \in Cursors :
    (Scanning(c) /\ ~ EOF(cur[c]))
      => /\ cur[c].current \in 1 .. Len(repo)
         /\ cur[c].statIndex < Len(cur[c].stats)
         /\ \A col \in Cols : ~ ColumnPanics(cur[c], col)

\* C6: a failure the collaborator reports during Open, Filter or Next is
\* what the operation returns, and the process does not crash.
C6_FailureReturned ==
  last.fault # "none" => (last.ret = ErrOf(last.fault) /\ ~ crashed)

\* C7: after Filter or Next has returned an error the cursor is not
\* positioned on a row: EOF is true.
C7_NoRowAfterError ==
  \A c \in Cursors :
    (phase[c] = "open" /\ scan[c] = "failed" /\ ~ crashed) => EOF(cur[c])

\* C8 as stated: EOF is true exactly in the Exhausted state.
C8_EOFIffExhausted ==
  \A c \in Cursors :
    (phase[c] = "open" /\ scan[c] # "failed")
      => (EOF(cur[c]) <=> Exhausted(c))

\* C8 as amended: EOF is true exactly when the cursor is Exhausted or still
\* Unpositioned, and false when it is Positioned.
C8_EOFIffNoCurrent ==
  \A c \in Cursors :
    (phase[c] = "open" /\ scan[c] # "failed")
      => /\ EOF(cur[c]) <=> (Exhausted(c) \/ Unpositioned(c))
         /\ Positioned(c) => ~ EOF(cur[c])

C8_Witness ==
  \E c \in Cursors :
    /\ Exhausted(c) /\ Len(repo) > 0 /\ EOF(cur[c])
    /\ Len(out[c]) >= 2

\* C9: Close, in every state of the cursor, returns no error, closes the
\* walker the cursor points to, leaves EOF true, and on a closed cursor
\* changes neither the cursor nor its walkers.
C9_CloseIdempotent ==
  [][\A c \in Cursors :
       Close(c) =>
         /\ last'.ret = Nil /\ ~ crashed'
         /\ EOF(cur'[c])
         /\ cur[c].commitIter # 0 => iters'[c][cur[c].commitIter].closed
         /\ phase[c] = "closed" => (cur'[c] = cur[c] /\ iters'[c] = iters[c])
    ]_vars

C9_Witness ==
  \E c \in Cursors :
    /\ phase[c] = "closed" /\ last.op = "Close" /\ last.cursor = c
    /\ cur[c].commitIter # 0 /\ Walker(c).closed
    /\ cur[c].stats # << >>

\* C10: once the cursor is closed every walker it created has been closed.
C10_AllWalkersReleased ==
  \A c \in Cursors :
    phase[c] = "closed"
      => \A k \in 1 .. Len(iters[c]) : iters[c][k].closed

\* C11: BestIndex returns, without error, one used-flag per constraint,
\* all false, for every list of constraints and orderings, and leaves the
\* table as it was.
C11_BestIndexUsesNothing ==
  /\ [](plan.made =>
          /\ Len(plan.Used) = Len(plan.cst)
          /\ \A i \in 1 .. Len(plan.Used) : plan.Used[i] = FALSE)
  /\ [](last.op = "BestIndex" => last.ret = Nil)
  /\ [][BestIndex => UNCHANGED << tab, repoPath, vrepo >>]_vars

C11_Witness ==
  /\ last.op = "BestIndex"
  /\ Len(plan.cst) >= 2
  /\ \E i \in 1 .. Len(plan.cst) : plan.cst[i].Usable
  /\ plan.ob # << >>

\* C12: Create and Connect alike store the path argument without its one
\* layer of quotes, and return an error and no table when the schema
\* declaration is rejected.
C12_CreateStripsOneLayer ==
  last.op \in {"Create", "Connect"}
    => IF last.fault = "declare"
       THEN last.ret = ErrOf("declare") /\ tab = "none"
       ELSE /\ last.ret = Nil
            /\ tab = "connected"
            /\ repoPath = created.p
            /\ Len(repoPath) = Len(Quoted(created.p, created.q)) - 2

C12_Witness ==
  /\ last.op = "Connect"
  /\ tab = "connected"
  /\ created.p = << DQ, "a", DQ >>
  /\ created.q = DQ

\* C13: two cursors of one table are independent: the rows of each are
\* those it produces alone, and a call on another cursor, a later Open or
\* Disconnect changes nothing of a cursor: not the repository it works on,
\* its walkers, its current commit, its statistics or its statIndex.
C13_CursorsIndependent ==
  /\ [](\A c \in Cursors :
          Scanning(c)
            => /\ IsPrefix(out[c], FreshRows(repo, query[c]))
               /\ EOF(cur[c]) => out[c] = FreshRows(repo, query[c]))
  /\ [][\A d \in Cursors :
          (phase[d] = "open" /\ last'.cursor # d)
            => /\ cur'[d] = cur[d]
               /\ iters'[d] = iters[d]
               /\ CursorRepo(cur'[d], vrepo') = CursorRepo(cur[d], vrepo)
               /\ out'[d] = out[d]
     ]_vars

C13_Witness ==
  /\ Scanning(1) /\ Scanning(2)
  /\ tab = "disconnected"
  /\ cur[1].repo # cur[2].repo /\ vrepo # cur[1].repo
  /\ EOF(cur[1]) /\ Len(out[1]) >= 2
  /\ ~ EOF(cur[2]) /\ Len(out[2]) >= 1

\* The statistics list the cursor gets for the i-th commit of the walker:
\* Filter loads the first commit, Next the others.
ProviderStats(log, i) ==
  IF i > 1 /\ CommitAt(log, i).parents = 0
  THEN RootStats(CommitAt(log, i))
  ELSE DiffStats(CommitAt(log, i))

\* The (commit, statIndex) pairs of the walker's commits from the i-th on,
\* in the walker's and the provider's order.
RECURSIVE PairsFrom(_, _)
PairsFrom(log, i) ==
  IF i > Len(log) THEN << >>
  ELSE [k \in 1 .. Len(ProviderStats(log, i)) |-> << i, k - 1 >>]
       \o PairsFrom(log, i + 1)

\* C14: the rows of a scan are the entries of the walker's commits, commit
\* by commit in the walker's order, each commit's entries contiguous with
\* statIndex 0, 1, ..., n-1, none skipped or repeated, no commit twice.
C14_RowsInWalkerOrder ==
  \A c \in Cursors :
    Scanning(c)
      => /\ IsPrefix(trail[c], PairsFrom(repo, 1))
         /\ EOF(cur[c]) => trail[c] = PairsFrom(repo, 1)

\* C15: with files of the current commit left, Next only adds one to
\* statIndex: the commit, its statistics, the walkers and the repository
\* handle stay and no error is returned; a walker moves only in a Next
\* that finds no file left.
C15_NextWithinCommit ==
  [][\A c \in Cursors :
       Next(c) =>
         /\ (Len(cur[c].stats) > cur[c].statIndex + 1)
              => /\ cur'[c] = [cur[c] EXCEPT !.statIndex = @ + 1]
                 /\ iters'[c] = iters[c]
                 /\ last'.ret = Nil /\ last'.fault = "none"
                 /\ ~ crashed'
         /\ (iters'[c] # iters[c])
              => ~ (Len(cur[c].stats) > cur[c].statIndex + 1)
    ]_vars

C15_Witness ==
  \E c \in Cursors :
    /\ Scanning(c) /\ last.op = "Next" /\ last.cursor = c
    /\ cur[c].current >= 1 /\ cur[c].statIndex = 1
    /\ Walker(c).pos = cur[c].current

\* C16: a Next on an Exhausted cursor leaves it Exhausted with EOF true and
\* does not crash, also when the repository has no commits and the cursor
\* no walker.
C16_ExhaustedIsTerminal ==
  [][\A c \in Cursors :
       (Exhausted(c) /\ Next(c))
         => (Exhausted(c)' /\ EOF(cur'[c]) /\ ~ crashed')
    ]_vars

\* The number of Next calls that take a scan of the history to its end: one
\* per entry of each commit, one for a commit without entries.
RECURSIVE ScanLength(_, _)
ScanLength(log, i) ==
  IF i > Len(log) THEN 0
  ELSE (IF Len(ProviderStats(log, i)) = 0 THEN 1
        ELSE Len(ProviderStats(log, i)))
       + ScanLength(log, i + 1)

\* C17: a scan ends: it takes at most ScanLength Next calls, the cursor is
\* Exhausted (EOF true) exactly when the walker has reported the end after
\* its last commit's last file, that Next returns no error, and an engine
\* that keeps reading and advancing gets there unless the collaborator
\* fails or the process stops.
C17_ScanTerminates ==
  /\ [](\A c \in Cursors :
          (Scanning(c) /\ Len(repo) > 0)
            => /\ Len(trail[c]) <= ScanLength(repo, 1)
               /\ EOF(cur[c]) <=> Walker(c).done
               /\ Walker(c).done
                    => (Walker(c).pos = Len(repo)
                        /\ Len(trail[c]) = ScanLength(repo, 1))
               /\ (Walker(c).done /\ last.op = "Next" /\ last.cursor = c)
                    => last.ret = Nil)
  /\ \A c \in Cursors :
       Scanning(c) ~> (EOF(cur[c]) \/ scan[c] = "failed" \/ crashed)

C17_Witness ==
  \E c \in Cursors :
    /\ Scanning(c) /\ Len(repo) >= 2
    /\ EOF(cur[c]) /\ Walker(c).done
    /\ last.op = "Next" /\ last.cursor = c
    /\ Len(trail[c]) >= 3

\* The commits the walkers of a cursor have yielded.
RECURSIVE Pulled(_)
Pulled(its) ==
  IF its = << >> THEN 0 ELSE Head(its).pos + Pulled(Tail(its))

\* C18: a Filter or a Next call pulls at most one commit from the walker,
\* the walker is never ahead of the current commit, and the cursor holds
\* the statistics of the current commit only.
C18_OneCommitAtATime ==
  /\ [][\A c \in Cursors :
          (Filter(c) \/ Next(c))
            => Pulled(iters'[c]) - Pulled(iters[c]) \in {0, 1}
     ]_vars
  /\ [](\A c \in Cursors :
          (Scanning(c) /\ ~ EOF(cur[c]))
            => /\ Walker(c).pos = cur[c].current
               /\ cur[c].stats = ProviderStats(repo, cur[c].current))

C18_Witness ==
  \E c \in Cursors :
    /\ Scanning(c) /\ ~ EOF(cur[c])
    /\ last.op = "Next" /\ last.cursor = c
    /\ cur[c].current = 2 /\ Len(repo) >= 2
    /\ cur[c].stats # << >>

====
